---- MODULE Spec2Model ----
(***************************************************************************)
(* gomodcheck: a model of the dependency reconciliation engine.            *)
(*                                                                         *)
(*   pkg/dependencies/project_dependency.go  the per-manifest dependency   *)
(*       set, replace-directive application (maybeUpdate)                  *)
(*   pkg/dependencies/location_tree.go       the location ancestry node    *)
(*   cmd/gomodcheck.go                       flag validation, manifest     *)
(*       loading with its cache, and the comparison (findDepErrors)        *)
(*                                                                         *)
(* Go pointers are modelled as references: a *projectDependencies is the   *)
(* path of the gomodfile it was built from (the only place that builds     *)
(* one, getOrLoadPackageDeps, builds at most one per gomodfile path), a    *)
(* *dependency / *dependencyLocationTree is the pair (gomodfile path,      *)
(* module path).  Go maps are functions with an explicit DOMAIN.           *)
(***************************************************************************)
EXTENDS Integers, Sequences, FiniteSets, TLC

(***************************************************************************)
(* Bounds of the model.                                                    *)
(***************************************************************************)
\* The most replace directives of a gomodfile built statement by statement.
MaxReplace == 3
\* The most --match-dep values when only the flags are parsed.
MaxRaw == 2

(***************************************************************************)
(* module.Version (golang.org/x/mod/module), as used by the repository.    *)
(***************************************************************************)
ModuleVersion(p, v) == [path |-> p, version |-> v]

\* Variant: the version alone.
VersionString_VersionOnly(m) == m.version

\* module.Version.String(): the path alone when the version is empty,
\* path@version otherwise.
VersionString(m) ==
    IF m.version = "" THEN m.path ELSE m.path \o "@" \o m.version

(***************************************************************************)
(* Errors are modelled by their message kind; NoErr is Go's nil error.     *)
(***************************************************************************)
NoErr == "nil"
ErrMultiTargeted == "multiple version-specific replace directives"
ErrMultiGlobal == "multiple non-version-specific replace directives"
ErrDuplicateDep == "duplicate dependency"
ErrReadModFile == "reading mod file"
ErrUnexpectedInput == "unexpected dep match input"
ErrEmptyPath == "empty package path in dep match input"
ErrMultiSource == "dep being sourced from multiple packages"

(***************************************************************************)
(* location_tree.go                                                        *)
(***************************************************************************)
FileLocation(r, c) == [row |-> r, col |-> c]

\* The nil *dependency / nil LocationTree.
NilRef == [file |-> "", path |-> ""]

DepRef(f, p) == [file |-> f, path |-> p]

\* Variant: a new node carries its original location as its replace location.
dependencyLocationTree_ReplacedAtOriginal(parentMod, orig, anc) ==
    [parentModVersion |-> parentMod,
     original |-> orig,
     replace |-> orig,
     ancestor |-> anc]

dependencyLocationTree(parentMod, orig, anc) ==
    [parentModVersion |-> parentMod,
     original |-> orig,
     replace |-> FileLocation(0, 0),
     ancestor |-> anc]

OriginalLocation(loc) == loc.original

EffectiveLocation(loc) ==
    IF loc.replace.row # 0 THEN loc.replace ELSE OriginalLocation(loc)

(***************************************************************************)
(* project_dependency.go: dependency.maybeUpdate                           *)
(***************************************************************************)
\* Variant: globalReplace, once set, is not cleared.
ApplyReplaceTo_StickyGlobal(d, rep, global) ==
    [d EXCEPT !.effectiveVersion = rep.new,
              !.location = [@ EXCEPT !.replace = FileLocation(rep.row, rep.col)],
              !.globalReplace = @ \/ global]

\* The three assignments both branches of maybeUpdate make when the replace
\* directive is applied.
ApplyReplaceTo(d, rep, global) ==
    [d EXCEPT !.effectiveVersion = rep.new,
              !.location = [@ EXCEPT !.replace = FileLocation(rep.row, rep.col)],
              !.globalReplace = global]

UpdateResult(d, upd, e) == [dep |-> d, updated |-> upd, err |-> e]

\* Variant: the guard compares the module paths instead of the versions.
GlobalAlreadyReplaced_ByPath(d) ==
    d.effectiveVersion.path # d.originalVersion.path

\* The guard of the untargeted branch: has a replace directive already
\* changed this dependency?
GlobalAlreadyReplaced(d) ==
    d.effectiveVersion.version # d.originalVersion.version

\* Variant: the guard compares the version strings only, as the untargeted
\* branch does.
TargetedAlreadyReplaced_VersionOnly(d) ==
    d.originalVersion.version # d.effectiveVersion.version /\ ~d.globalReplace

\* Variant: the guard does not look at globalReplace.
TargetedAlreadyReplaced_IgnoreGlobal(d) ==
    d.originalVersion # d.effectiveVersion

\* The guard of the targeted branch.
TargetedAlreadyReplaced(d) ==
    d.originalVersion # d.effectiveVersion /\ ~d.globalReplace

\* Variant: the targeted branch applies the directive without looking for an
\* earlier targeted one.
maybeUpdate_NoTargetedConflict(d, rep) ==
    IF rep.old.version # ""
    THEN IF d.originalVersion.version # rep.old.version
         THEN UpdateResult(d, FALSE, NoErr)
         ELSE UpdateResult(ApplyReplaceTo(d, rep, FALSE), TRUE, NoErr)
    ELSE IF GlobalAlreadyReplaced(d)
         THEN IF d.globalReplace
              THEN UpdateResult(d, FALSE, ErrMultiGlobal)
              ELSE UpdateResult(d, FALSE, NoErr)
         ELSE UpdateResult(ApplyReplaceTo(d, rep, TRUE), TRUE, NoErr)

\* Variant: a targeted directive is applied whatever version it is pinned to.
maybeUpdate_IgnoreOldVersion(d, rep) ==
    IF rep.old.version # ""
    THEN IF TargetedAlreadyReplaced(d)
         THEN UpdateResult(d, FALSE, ErrMultiTargeted)
         ELSE UpdateResult(ApplyReplaceTo(d, rep, FALSE), TRUE, NoErr)
    ELSE IF GlobalAlreadyReplaced(d)
         THEN IF d.globalReplace
              THEN UpdateResult(d, FALSE, ErrMultiGlobal)
              ELSE UpdateResult(d, FALSE, NoErr)
         ELSE UpdateResult(ApplyReplaceTo(d, rep, TRUE), TRUE, NoErr)

maybeUpdate(d, rep) ==
    IF rep.old.version # ""
    THEN IF d.originalVersion.version # rep.old.version
         THEN UpdateResult(d, FALSE, NoErr)
         ELSE IF TargetedAlreadyReplaced(d)
              THEN UpdateResult(d, FALSE, ErrMultiTargeted)
              ELSE UpdateResult(ApplyReplaceTo(d, rep, FALSE), TRUE, NoErr)
    ELSE IF GlobalAlreadyReplaced(d)
         THEN IF d.globalReplace
              THEN UpdateResult(d, FALSE, ErrMultiGlobal)
              ELSE UpdateResult(d, FALSE, NoErr)
         ELSE UpdateResult(ApplyReplaceTo(d, rep, TRUE), TRUE, NoErr)

(***************************************************************************)
(* project_dependency.go: projectDependencies                              *)
(***************************************************************************)
\* allDependencies is the map path -> *dependency; directDependencies and
\* replacements hold the same pointers under the same keys, so they are the
\* sets of their keys.
EmptyProjectDependencies ==
    [allDependencies |-> <<>>,
     directDependencies |-> {},
     replacements |-> {}]

HasDep(p, packagePath) == packagePath \in DOMAIN p.allDependencies

\* Variant: the dependency is recorded in replacements only when its effective
\* version now differs from the original one.
updateEffectiveVersion_OnlyChanged(p, rep) ==
    LET repPath == rep.old.path IN
    IF ~HasDep(p, repPath)
    THEN [res |-> p, err |-> NoErr]
    ELSE LET u == maybeUpdate(p.allDependencies[repPath], rep) IN
         IF u.err # NoErr
         THEN [res |-> p, err |-> u.err]
         ELSE IF u.updated
              THEN [res |-> [p EXCEPT
                        !.allDependencies[repPath] = u.dep,
                        !.replacements =
                            IF u.dep.effectiveVersion # u.dep.originalVersion
                            THEN @ \cup {repPath} ELSE @],
                    err |-> NoErr]
              ELSE [res |-> p, err |-> NoErr]

\* Variant: a directive for a path that is not required is recorded in
\* replacements.
updateEffectiveVersion_RecordsMissing(p, rep) ==
    LET repPath == rep.old.path IN
    IF ~HasDep(p, repPath)
    THEN [res |-> [p EXCEPT !.replacements = @ \cup {repPath}], err |-> NoErr]
    ELSE LET u == maybeUpdate(p.allDependencies[repPath], rep) IN
         IF u.err # NoErr
         THEN [res |-> p, err |-> u.err]
         ELSE IF u.updated
              THEN [res |-> [p EXCEPT !.allDependencies[repPath] = u.dep,
                                      !.replacements = @ \cup {repPath}],
                    err |-> NoErr]
              ELSE [res |-> p, err |-> NoErr]

\* updateEffectiveVersion: [res |-> the set after the call, err |-> error].
updateEffectiveVersion(p, rep) ==
    LET repPath == rep.old.path IN
    IF ~HasDep(p, repPath)
    THEN [res |-> p, err |-> NoErr]
    ELSE LET u == maybeUpdate(p.allDependencies[repPath], rep) IN
         IF u.err # NoErr
         THEN [res |-> p, err |-> u.err]
         ELSE IF u.updated
              THEN [res |-> [p EXCEPT !.allDependencies[repPath] = u.dep,
                                      !.replacements = @ \cup {repPath}],
                    err |-> NoErr]
              ELSE [res |-> p, err |-> NoErr]

\* Variant: a second require entry for a path replaces the first.
addRequire_Overwrite(p, req, modName, parentModDecl) ==
    LET loc == dependencyLocationTree(
                   modName, FileLocation(req.row, req.col), parentModDecl)
        dep == [originalVersion |-> req.mod,
                effectiveVersion |-> req.mod,
                location |-> loc,
                globalReplace |-> FALSE]
    IN [res |-> [allDependencies |->
                     [k \in DOMAIN p.allDependencies \cup {req.mod.path} |->
                         IF k = req.mod.path THEN dep
                         ELSE p.allDependencies[k]],
                 directDependencies |->
                     IF req.indirect THEN p.directDependencies
                     ELSE p.directDependencies \cup {req.mod.path},
                 replacements |-> p.replacements],
        err |-> NoErr]

\* Variant: the parent declaration is not linked.
addRequire_NoAncestor(p, req, modName, parentModDecl) ==
    IF HasDep(p, req.mod.path)
    THEN [res |-> p, err |-> ErrDuplicateDep]
    ELSE LET loc == dependencyLocationTree(
                        modName, FileLocation(req.row, req.col), NilRef)
             dep == [originalVersion |-> req.mod,
                     effectiveVersion |-> req.mod,
                     location |-> loc,
                     globalReplace |-> FALSE]
         IN [res |-> [allDependencies |->
                          p.allDependencies @@ (req.mod.path :> dep),
                      directDependencies |->
                          IF req.indirect THEN p.directDependencies
                          ELSE p.directDependencies \cup {req.mod.path},
                      replacements |-> p.replacements],
             err |-> NoErr]

\* One iteration of the require loop of NewProjectDependenciesFromModfile.
addRequire(p, req, modName, parentModDecl) ==
    IF HasDep(p, req.mod.path)
    THEN [res |-> p, err |-> ErrDuplicateDep]
    ELSE LET loc == dependencyLocationTree(
                        modName, FileLocation(req.row, req.col), parentModDecl)
             dep == [originalVersion |-> req.mod,
                     effectiveVersion |-> req.mod,
                     location |-> loc,
                     globalReplace |-> FALSE]
         IN [res |-> [allDependencies |->
                          p.allDependencies @@ (req.mod.path :> dep),
                      directDependencies |->
                          IF req.indirect THEN p.directDependencies
                          ELSE p.directDependencies \cup {req.mod.path},
                      replacements |-> p.replacements],
             err |-> NoErr]

RECURSIVE requireLoop(_, _, _, _, _)
requireLoop(p, reqs, i, modName, parentModDecl) ==
    IF i > Len(reqs) THEN [res |-> p, err |-> NoErr]
    ELSE LET r == addRequire(p, reqs[i], modName, parentModDecl) IN
         IF r.err # NoErr THEN r
         ELSE requireLoop(r.res, reqs, i + 1, modName, parentModDecl)

RECURSIVE replaceLoop(_, _, _)
replaceLoop(p, reps, j) ==
    IF j > Len(reps) THEN [res |-> p, err |-> NoErr]
    ELSE LET r == updateEffectiveVersion(p, reps[j]) IN
         IF r.err # NoErr THEN r
         ELSE replaceLoop(r.res, reps, j + 1)

\* NewProjectDependenciesFromModfile on the parsed file f (readModFile's
\* result; f.readable is FALSE when reading or parsing failed).
NewProjectDependenciesFromModfile(parentModDecl, f) ==
    IF ~f.readable THEN [res |-> EmptyProjectDependencies, err |-> ErrReadModFile]
    ELSE LET a == requireLoop(EmptyProjectDependencies, f.require, 1,
                              f.module, parentModDecl) IN
         IF a.err # NoErr THEN [res |-> EmptyProjectDependencies, err |-> a.err]
         ELSE LET b == replaceLoop(a.res, f.replace, 1) IN
              IF b.err # NoErr
              THEN [res |-> EmptyProjectDependencies, err |-> b.err]
              ELSE b

(***************************************************************************)
(* cmd/gomodcheck.go: state of the program.                                *)
(***************************************************************************)
VARIABLES
    \* inputs: the flags, the gomodfiles on disk and packages.Load's result
    rawMatchDeps,           \* --match-dep values, each a sequence of characters
    checkReplacePackages,   \* --match-replaces values
    modFiles,               \* gomodfile path -> parsed gomodfile
    pkgs,                   \* the packages packages.Load returns
    \* modCheckCommand
    parsedMatchDeps,        \* package path -> set of dep paths
    projectDeps,            \* sequence of *projectDependencies
    depDeps,                \* package path -> *projectDependencies
    allLoadedDeps,          \* gomodfile path -> projectDependencies
    \* control
    pc,                     \* position in RunE / run / readDepMappings
    pkgIdx,                 \* index of the package of the outer loop
    pkgDepSet,              \* readDepMappings' pkgDepSet ("" is nil)
    impTodo,                \* imports of the current package not yet visited
    runErr,                 \* the error RunE returns
    depsToCheck,            \* findDepErrors' candidate map
    depErrs,                \* findDepErrors' result
    readLog,                \* history: the calls of
                            \* NewProjectDependenciesFromModfile so far
    \* NewProjectDependenciesFromModfile, step by step, on one gomodfile
    bFile,                  \* the parsed gomodfile being built from
    bRes,                   \* res
    bPc,                    \* "require", "replace", "done" or "failed"
    bIdx,                   \* index of the next statement
    bErr,                   \* the error returned
    bLog                    \* the replace directives applied so far

cmdVars == <<parsedMatchDeps, projectDeps, depDeps, allLoadedDeps, pc, pkgIdx,
             pkgDepSet, impTodo, runErr, depsToCheck, depErrs, readLog>>
envVars == <<rawMatchDeps, checkReplacePackages, modFiles, pkgs>>
buildVars == <<bFile, bRes, bPc, bIdx, bErr, bLog>>
vars == <<envVars, cmdVars, buildVars>>

ErrMismatches == "found dependency mismatches"

(***************************************************************************)
(* Go maps.                                                                *)
(***************************************************************************)
\* The orders in which a range statement may visit the keys S of a map.
Orders(S) ==
    {o \in [1..Cardinality(S) -> S] : \A i, j \in 1..Cardinality(S) :
                                          o[i] = o[j] => i = j}

\* m with the entries of n written over it.
Overwrite(m, n) ==
    [k \in DOMAIN m \cup DOMAIN n |-> IF k \in DOMAIN n THEN n[k] ELSE m[k]]

(***************************************************************************)
(* parseAndVerifyMatchDeps                                                 *)
(***************************************************************************)
\* strings.Split(input, ":") on a sequence of one-character strings.
RECURSIVE SplitFrom(_, _, _, _)
SplitFrom(input, i, cur, parts) ==
    IF i > Len(input) THEN Append(parts, cur)
    ELSE IF input[i] = ":"
         THEN SplitFrom(input, i + 1, "", Append(parts, cur))
         ELSE SplitFrom(input, i + 1, cur \o input[i], parts)

Split(input) == SplitFrom(input, 1, "", <<>>)

\* Variant: an empty package path is accepted.
InputErr_AllowEmpty(parts) ==
    IF Len(parts) # 2 THEN ErrUnexpectedInput ELSE NoErr

\* The error of the switch on one input, NoErr when it is well formed.
InputErr(parts) ==
    IF Len(parts) # 2 THEN ErrUnexpectedInput
    ELSE IF Len(parts[1]) = 0 \/ Len(parts[2]) = 0 THEN ErrEmptyPath
    ELSE NoErr

\* c.parsedMatchDeps[parts[0]][parts[1]] = struct{}{}
AddMatchDep(m, pkg, dep) ==
    IF pkg \in DOMAIN m
    THEN [m EXCEPT ![pkg] = @ \cup {dep}]
    ELSE m @@ (pkg :> {dep})

\* The first loop: [m |-> parsedMatchDeps when it stops, err |-> its error].
RECURSIVE parseLoop(_, _, _)
parseLoop(raw, i, m) ==
    IF i > Len(raw) THEN [m |-> m, err |-> NoErr]
    ELSE LET parts == Split(raw[i]) IN
         IF InputErr(parts) # NoErr THEN [m |-> m, err |-> InputErr(parts)]
         ELSE parseLoop(raw, i + 1, AddMatchDep(m, parts[1], parts[2]))

\* Some enumeration of a set, for the range over a set no result depends on.
RECURSIVE SetToSeq(_)
SetToSeq(S) ==
    IF S = {} THEN <<>>
    ELSE LET x == CHOOSE x \in S : TRUE IN <<x>> \o SetToSeq(S \ {x})

\* The (package, dep) pairs in the order the two nested range statements of
\* the second loop visit them, for the order given on the packages.
RECURSIVE validatePairs(_, _, _)
validatePairs(m, order, i) ==
    IF i > Len(order) THEN <<>>
    ELSE LET deps == SetToSeq(m[order[i]]) IN
         [k \in 1..Len(deps) |-> [packageName |-> order[i], dep |-> deps[k]]]
         \o validatePairs(m, order, i + 1)

\* Variant: validateTmp is keyed by the package name instead of the dep.
RECURSIVE validateLoop_ByPackage(_, _, _)
validateLoop_ByPackage(pairs, i, validateTmp) ==
    IF i > Len(pairs) THEN NoErr
    ELSE IF pairs[i].packageName \in DOMAIN validateTmp
            /\ validateTmp[pairs[i].packageName] # pairs[i].packageName
         THEN ErrMultiSource
         ELSE validateLoop_ByPackage(pairs, i + 1,
                  Overwrite(validateTmp,
                            pairs[i].packageName :> pairs[i].packageName))

\* The second loop: validateTmp maps each dep seen to its package.
RECURSIVE validateLoop(_, _, _)
validateLoop(pairs, i, validateTmp) ==
    IF i > Len(pairs) THEN NoErr
    ELSE IF pairs[i].dep \in DOMAIN validateTmp
         THEN ErrMultiSource
         ELSE validateLoop(pairs, i + 1,
                  Overwrite(validateTmp, pairs[i].dep :> pairs[i].packageName))

\* order is the order in which the range statement visits parsedMatchDeps.
parseAndVerifyMatchDeps(raw, m, order) ==
    LET a == parseLoop(raw, 1, m) IN
    IF a.err # NoErr THEN a
    ELSE [m |-> a.m, err |-> validateLoop(validatePairs(a.m, order, 1), 1, <<>>)]

(***************************************************************************)
(* getOrLoadPackageDeps                                                    *)
(***************************************************************************)
NoReplace == [present |-> FALSE, goMod |-> ""]
NoModule == [present |-> FALSE, path |-> "", goMod |-> "", replace |-> NoReplace]
Module(p, g, r) == [present |-> TRUE, path |-> p, goMod |-> g, replace |-> r]

ModFilePath(module) ==
    IF module.replace.present THEN module.replace.goMod ELSE module.goMod

\* read tells whether the call went on to NewProjectDependenciesFromModfile.
LoadResult(d, f, e, l, r) ==
    [deps |-> d, fresh |-> f, err |-> e, loaded |-> l, read |-> r]

\* Variant: allLoadedDeps is not consulted, the gomodfile is always loaded.
getOrLoadPackageDeps_NoCache(loaded, files, module, dep) ==
    IF ~module.present THEN LoadResult("", FALSE, NoErr, loaded, FALSE)
    ELSE LET modFilePath == ModFilePath(module) IN
         IF Len(modFilePath) = 0 THEN LoadResult("", FALSE, NoErr, loaded, FALSE)
         ELSE LET r == NewProjectDependenciesFromModfile(
                           dep, files[modFilePath]) IN
              IF r.err # NoErr
              THEN LoadResult("", FALSE, r.err, loaded, TRUE)
              ELSE LoadResult(modFilePath, TRUE, NoErr,
                              Overwrite(loaded, modFilePath :> r.res), TRUE)

\* Variant: a gomodfile that cannot be loaded is passed over like a package
\* without gomodfile.
getOrLoadPackageDeps_IgnoreErr(loaded, files, module, dep) ==
    IF ~module.present THEN LoadResult("", FALSE, NoErr, loaded, FALSE)
    ELSE LET modFilePath == ModFilePath(module) IN
         IF Len(modFilePath) = 0 THEN LoadResult("", FALSE, NoErr, loaded, FALSE)
         ELSE IF modFilePath \in DOMAIN loaded
              THEN LoadResult(modFilePath, FALSE, NoErr, loaded, FALSE)
              ELSE LET r == NewProjectDependenciesFromModfile(
                                dep, files[modFilePath]) IN
                   IF r.err # NoErr
                   THEN LoadResult("", FALSE, NoErr, loaded, TRUE)
                   ELSE LoadResult(modFilePath, TRUE, NoErr,
                                   loaded @@ (modFilePath :> r.res), TRUE)

\* Variant: the dependencies of a gomodfile are linked to the first of
\* themselves instead of the parent declaration.
getOrLoadPackageDeps_SelfAncestor(loaded, files, module, dep) ==
    IF ~module.present THEN LoadResult("", FALSE, NoErr, loaded, FALSE)
    ELSE LET modFilePath == ModFilePath(module) IN
         IF Len(modFilePath) = 0 THEN LoadResult("", FALSE, NoErr, loaded, FALSE)
         ELSE IF modFilePath \in DOMAIN loaded
              THEN LoadResult(modFilePath, FALSE, NoErr, loaded, FALSE)
              ELSE LET f == files[modFilePath]
                       self == IF Len(f.require) > 0
                               THEN DepRef(modFilePath, f.require[1].mod.path)
                               ELSE dep
                       r == NewProjectDependenciesFromModfile(self, f)
                   IN IF r.err # NoErr
                      THEN LoadResult("", FALSE, r.err, loaded, TRUE)
                      ELSE LoadResult(modFilePath, TRUE, NoErr,
                                      loaded @@ (modFilePath :> r.res), TRUE)

\* deps is the gomodfile path standing for the *projectDependencies returned,
\* "" for nil; loaded is allLoadedDeps after the call.
getOrLoadPackageDeps(loaded, files, module, dep) ==
    IF ~module.present THEN LoadResult("", FALSE, NoErr, loaded, FALSE)
    ELSE LET modFilePath == ModFilePath(module) IN
         IF Len(modFilePath) = 0 THEN LoadResult("", FALSE, NoErr, loaded, FALSE)
         ELSE IF modFilePath \in DOMAIN loaded
              THEN LoadResult(modFilePath, FALSE, NoErr, loaded, FALSE)
              ELSE LET r == NewProjectDependenciesFromModfile(
                                dep, files[modFilePath]) IN
                   IF r.err # NoErr
                   THEN LoadResult("", FALSE, r.err, loaded, TRUE)
                   ELSE LoadResult(modFilePath, TRUE, NoErr,
                                   loaded @@ (modFilePath :> r.res), TRUE)

\* The entry of readLog for a call of getOrLoadPackageDeps: the gomodfile
\* path and the parent declaration NewProjectDependenciesFromModfile was
\* called with, when it was called.
Logged(log, r, module, dep) ==
    IF r.read THEN Append(log, [file |-> ModFilePath(module), parent |-> dep])
    ELSE log

\* PackageDependencies.GetDep as a reference: NilRef when the path is absent.
GetDep(loaded, file, packagePath) ==
    IF HasDep(loaded[file], packagePath)
    THEN DepRef(file, packagePath)
    ELSE NilRef

Deref(loaded, ref) == loaded[ref.file].allDependencies[ref.path]

(***************************************************************************)
(* findDepErrors                                                           *)
(***************************************************************************)
\* The candidates one --match-dep package adds: its listed deps that its
\* dependency set holds.
matchDepCandidates(loaded, file, matchDepSet) ==
    [depPath \in {d \in matchDepSet : HasDep(loaded[file], d)} |->
        DepRef(file, depPath)]

\* The first loop, visiting the keys of parsedMatchDeps in the order given.
RECURSIVE matchDepLoop(_, _, _, _, _, _)
matchDepLoop(loaded, parsed, dd, order, i, cands) ==
    IF i > Len(order) THEN cands
    ELSE LET depPackage == order[i] IN
         IF depPackage \notin DOMAIN dd
         THEN matchDepLoop(loaded, parsed, dd, order, i + 1, cands)
         ELSE matchDepLoop(loaded, parsed, dd, order, i + 1,
                  Overwrite(cands,
                      matchDepCandidates(loaded, dd[depPackage],
                                         parsed[depPackage])))

\* The candidates one --match-replaces package adds: every replaced
\* dependency, under its original path.
replaceCandidates(loaded, file) ==
    [k \in {Deref(loaded, DepRef(file, r)).originalVersion.path :
                r \in loaded[file].replacements} |-> DepRef(file, k)]

\* Variant: a key depsToCheck already holds is kept.
RECURSIVE matchReplaceLoop_FirstWins(_, _, _, _, _)
matchReplaceLoop_FirstWins(loaded, dd, crp, i, cands) ==
    IF i > Len(crp) THEN cands
    ELSE IF crp[i] \notin DOMAIN dd
         THEN matchReplaceLoop_FirstWins(loaded, dd, crp, i + 1, cands)
         ELSE matchReplaceLoop_FirstWins(loaded, dd, crp, i + 1,
                  Overwrite(replaceCandidates(loaded, dd[crp[i]]), cands))

\* The second loop, over the slice checkReplacePackages.
RECURSIVE matchReplaceLoop(_, _, _, _, _)
matchReplaceLoop(loaded, dd, crp, i, cands) ==
    IF i > Len(crp) THEN cands
    ELSE IF crp[i] \notin DOMAIN dd
         THEN matchReplaceLoop(loaded, dd, crp, i + 1, cands)
         ELSE matchReplaceLoop(loaded, dd, crp, i + 1,
                  Overwrite(cands, replaceCandidates(loaded, dd[crp[i]])))

\* Variant: the two versions are stored in each other's field.
depError_Swapped(want, got, gotLoc, wantLoc) ==
    [wantVersion |-> got, gotVersion |-> want,
     gotLoc |-> gotLoc, wantLoc |-> wantLoc]

depError(want, got, gotLoc, wantLoc) ==
    [wantVersion |-> want, gotVersion |-> got,
     gotLoc |-> gotLoc, wantLoc |-> wantLoc]

\* Variant: the test compares the version strings alone.
VersionsDiffer_ByVersion(checkDep, projectDep) ==
    checkDep.effectiveVersion.version # projectDep.effectiveVersion.version

\* The test of the comparison.
VersionsDiffer(checkDep, projectDep) ==
    VersionString(checkDep.effectiveVersion) #
        VersionString(projectDep.effectiveVersion)

\* Variant: the project's dependency is looked up by the candidate's
\* effective path.
compareOne_ByEffectivePath(loaded, checkRef, projFile) ==
    LET checkDep == Deref(loaded, checkRef)
        projRef == GetDep(loaded, projFile, checkDep.effectiveVersion.path)
    IN IF projRef = NilRef THEN <<>>
       ELSE LET projectDep == Deref(loaded, projRef) IN
            IF VersionString(checkDep.effectiveVersion) #
                   VersionString(projectDep.effectiveVersion)
            THEN <<[wantVersion |-> VersionString(checkDep.effectiveVersion),
                    gotVersion |-> VersionString(projectDep.effectiveVersion),
                    gotLoc |-> projRef, wantLoc |-> checkRef]>>
            ELSE <<>>

\* The body of the inner loop for one candidate and one project set: the
\* reports it appends.
compareOne(loaded, checkRef, projFile) ==
    LET checkDep == Deref(loaded, checkRef)
        projRef == GetDep(loaded, projFile, checkDep.originalVersion.path)
    IN IF projRef = NilRef THEN <<>>
       ELSE LET projectDep == Deref(loaded, projRef) IN
            IF VersionsDiffer(checkDep, projectDep)
            THEN <<depError(VersionString(checkDep.effectiveVersion),
                            VersionString(projectDep.effectiveVersion),
                            projRef, checkRef)>>
            ELSE <<>>

RECURSIVE projectLoop(_, _, _, _)
projectLoop(loaded, checkRef, pd, k) ==
    IF k > Len(pd) THEN <<>>
    ELSE compareOne(loaded, checkRef, pd[k]) \o
         projectLoop(loaded, checkRef, pd, k + 1)

\* Variant: the loop ends after the first candidate that yields a report.
RECURSIVE compareLoop_StopAtFirst(_, _, _, _, _)
compareLoop_StopAtFirst(loaded, cands, pd, order, i) ==
    IF i > Len(order) THEN <<>>
    ELSE LET r == projectLoop(loaded, cands[order[i]], pd, 1) IN
         IF Len(r) > 0 THEN r
         ELSE compareLoop_StopAtFirst(loaded, cands, pd, order, i + 1)

\* The third loop, visiting the keys of depsToCheck in the order given.
RECURSIVE compareLoop(_, _, _, _, _)
compareLoop(loaded, cands, pd, order, i) ==
    IF i > Len(order) THEN <<>>
    ELSE projectLoop(loaded, cands[order[i]], pd, 1) \o
         compareLoop(loaded, cands, pd, order, i + 1)

\* depsToCheck after the first two loops.
collectDepsToCheck(loaded, parsed, dd, crp, order) ==
    matchReplaceLoop(loaded, dd, crp, 1,
        matchDepLoop(loaded, parsed, dd, order, 1, <<>>))

\* The same loops with every range over a map spelled out: the inner loop
\* over matchDepSet visits its keys in the order given.
RECURSIVE matchDepSetLoop(_, _, _, _, _)
matchDepSetLoop(loaded, file, order, i, cands) ==
    IF i > Len(order) THEN cands
    ELSE LET dep == GetDep(loaded, file, order[i]) IN
         IF dep # NilRef
         THEN matchDepSetLoop(loaded, file, order, i + 1,
                              Overwrite(cands, order[i] :> dep))
         ELSE matchDepSetLoop(loaded, file, order, i + 1, cands)

\* tOrd[depPackage] is the order in which matchDepSet is visited.
RECURSIVE matchDepLoopIn(_, _, _, _, _, _)
matchDepLoopIn(loaded, dd, order, tOrd, i, cands) ==
    IF i > Len(order) THEN cands
    ELSE LET depPackage == order[i] IN
         IF depPackage \notin DOMAIN dd
         THEN matchDepLoopIn(loaded, dd, order, tOrd, i + 1, cands)
         ELSE matchDepLoopIn(loaded, dd, order, tOrd, i + 1,
                  matchDepSetLoop(loaded, dd[depPackage], tOrd[depPackage],
                                  1, cands))

\* Replacements(): the replaced dependencies as a slice, in the order in
\* which the range over the map replacements visited them.
Replacements(file, order) ==
    [i \in 1..Len(order) |-> DepRef(file, order[i])]

\* The loop over the slice Replacements() returned.
RECURSIVE replacementsLoop(_, _, _, _)
replacementsLoop(loaded, reps, i, cands) ==
    IF i > Len(reps) THEN cands
    ELSE replacementsLoop(loaded, reps, i + 1,
             Overwrite(cands,
                 Deref(loaded, reps[i]).originalVersion.path :> reps[i]))

\* rOrd[i] is the order in which the i-th package's replacements are
\* visited.
RECURSIVE matchReplaceLoopIn(_, _, _, _, _, _)
matchReplaceLoopIn(loaded, dd, crp, rOrd, i, cands) ==
    IF i > Len(crp) THEN cands
    ELSE IF crp[i] \notin DOMAIN dd
         THEN matchReplaceLoopIn(loaded, dd, crp, rOrd, i + 1, cands)
         ELSE matchReplaceLoopIn(loaded, dd, crp, rOrd, i + 1,
                  replacementsLoop(loaded,
                                   Replacements(dd[crp[i]], rOrd[i]), 1, cands))

collectDepsToCheckIn(loaded, dd, crp, order, tOrd, rOrd) ==
    matchReplaceLoopIn(loaded, dd, crp, rOrd, 1,
        matchDepLoopIn(loaded, dd, order, tOrd, 1, <<>>))

(***************************************************************************)
(* Inputs: gomodfiles, packages and flags.                                 *)
(***************************************************************************)
\* What modfile.Parse yields for a gomodfile whose statements are the
\* require entries reqs followed by the replace entries reps, one per line
\* after the module line.
ParsedFile(module, reqs, reps) ==
    [readable |-> TRUE,
     module |-> module,
     require |-> [i \in 1..Len(reqs) |->
                    [mod |-> reqs[i].mod, indirect |-> reqs[i].indirect,
                     row |-> 1 + i, col |-> 1]],
     replace |-> [j \in 1..Len(reps) |->
                    [old |-> reps[j].old, new |-> reps[j].new,
                     row |-> 1 + Len(reqs) + j, col |-> 1]]]

\* A gomodfile that cannot be read or parsed.
Unreadable ==
    [readable |-> FALSE, module |-> "", require |-> <<>>, replace |-> <<>>]

Require(p, v, ind) == [mod |-> ModuleVersion(p, v), indirect |-> ind]
Replace(op, ov, np, nv) ==
    [old |-> ModuleVersion(op, ov), new |-> ModuleVersion(np, nv)]

\* Sequences over S of length at most n.
SeqUpTo(S, n) == UNION {[1..k -> S] : k \in 0..n}

Versions == {"v1", "v2"}

(***************************************************************************)
(* Values of the variables a specification does not use.                   *)
(***************************************************************************)
CmdIdle ==
    /\ parsedMatchDeps = <<>>
    /\ projectDeps = <<>>
    /\ depDeps = <<>>
    /\ allLoadedDeps = <<>>
    /\ pkgIdx = 0
    /\ pkgDepSet = ""
    /\ impTodo = {}
    /\ runErr = NoErr
    /\ depsToCheck = <<>>
    /\ depErrs = <<>>
    /\ readLog = <<>>

BuildIdle ==
    /\ bFile = Unreadable
    /\ bRes = EmptyProjectDependencies
    /\ bPc = "idle"
    /\ bIdx = 0
    /\ bErr = NoErr
    /\ bLog = <<>>

(***************************************************************************)
(* NewProjectDependenciesFromModfile, statement by statement.              *)
(***************************************************************************)
BuildRequires ==
    {Require("F", "v1", FALSE), Require("F", "v2", FALSE),
     Require("G", "v1", TRUE)}

\* The module paths a gomodfile requires: a file without a duplicate entry
\* has at most one require entry per path.
BuildPaths == {"F", "G"}

\* Replace directives: for F untargeted or pinned to v1, to the same module
\* (F v1), to another path at F's version (G v1) or to another path and
\* version (G v2), and pinned to v2 to G v2; for G untargeted or pinned to
\* v1, to G v2.
BuildReplaces ==
    {Replace("F", ov, n.path, n.version) :
        ov \in {"", "v1"},
        n \in {ModuleVersion("F", "v1"), ModuleVersion("G", "v1"),
               ModuleVersion("G", "v2")}}
    \cup {Replace("F", "v2", "G", "v2")}
    \cup {Replace("G", ov, "G", "v2") : ov \in {"", "v1"}}

BuildFiles ==
    {ParsedFile("P", reqs, reps) :
        reqs \in SeqUpTo(BuildRequires, Cardinality(BuildPaths)),
        reps \in SeqUpTo(BuildReplaces, MaxReplace)} \cup {Unreadable}

InitBuild ==
    /\ bFile \in BuildFiles
    /\ bRes = EmptyProjectDependencies
    /\ bPc = "read"
    /\ bIdx = 0
    /\ bErr = NoErr
    /\ bLog = <<>>
    /\ rawMatchDeps = <<>>
    /\ checkReplacePackages = <<>>
    /\ modFiles = <<>>
    /\ pkgs = <<>>
    /\ pc = "idle"
    /\ CmdIdle

BuildFail(e) ==
    /\ bPc' = "failed"
    /\ bErr' = e
    /\ bRes' = EmptyProjectDependencies
    /\ UNCHANGED <<bFile, bIdx, bLog>>

\* readModFile
BuildRead ==
    /\ bPc = "read"
    /\ IF ~bFile.readable
       THEN BuildFail(ErrReadModFile)
       ELSE /\ bPc' = "require"
            /\ bIdx' = 1
            /\ UNCHANGED <<bFile, bRes, bErr, bLog>>
    /\ UNCHANGED <<envVars, cmdVars>>

\* One iteration of the loop over modFile.Require.
BuildRequire ==
    /\ bPc = "require"
    /\ bIdx <= Len(bFile.require)
    /\ LET r == addRequire(bRes, bFile.require[bIdx], bFile.module, NilRef) IN
       IF r.err # NoErr
       THEN BuildFail(r.err)
       ELSE /\ bRes' = r.res
            /\ bIdx' = bIdx + 1
            /\ UNCHANGED <<bFile, bPc, bErr, bLog>>
    /\ UNCHANGED <<envVars, cmdVars>>

BuildRequireDone ==
    /\ bPc = "require"
    /\ bIdx > Len(bFile.require)
    /\ bPc' = "replace"
    /\ bIdx' = 1
    /\ UNCHANGED <<bFile, bRes, bErr, bLog>>
    /\ UNCHANGED <<envVars, cmdVars>>

\* Did updateEffectiveVersion(p, rep) assign the dependency's effective
\* version (maybeUpdate returned true)?
Assigns(p, rep) ==
    /\ HasDep(p, rep.old.path)
    /\ maybeUpdate(p.allDependencies[rep.old.path], rep).updated

\* One iteration of the loop over modFile.Replace.  bLog records, for each
\* directive applied without error, whether it assigned.
BuildReplace ==
    /\ bPc = "replace"
    /\ bIdx <= Len(bFile.replace)
    /\ LET rep == bFile.replace[bIdx]
           r == updateEffectiveVersion(bRes, rep)
       IN IF r.err # NoErr
          THEN BuildFail(r.err)
          ELSE /\ bRes' = r.res
               /\ bIdx' = bIdx + 1
               /\ bLog' = Append(bLog, [idx |-> bIdx, path |-> rep.old.path,
                                        assigned |-> Assigns(bRes, rep)])
               /\ UNCHANGED <<bFile, bPc, bErr>>
    /\ UNCHANGED <<envVars, cmdVars>>

BuildReturn ==
    /\ bPc = "replace"
    /\ bIdx > Len(bFile.replace)
    /\ bPc' = "done"
    /\ UNCHANGED <<bFile, bRes, bIdx, bErr, bLog>>
    /\ UNCHANGED <<envVars, cmdVars>>

NextBuild ==
    \/ BuildRead
    \/ BuildRequire
    \/ BuildRequireDone
    \/ BuildReplace
    \/ BuildReturn

SpecBuild == InitBuild /\ [][NextBuild]_vars

\* The statement-by-statement build returns what the function returns.
BuildAgrees ==
    bPc \in {"done", "failed"} =>
        LET r == NewProjectDependenciesFromModfile(NilRef, bFile) IN
        /\ r.err = bErr
        /\ r.res = bRes

(***************************************************************************)
(* RunE, run and readDepMappings.                                          *)
(***************************************************************************)
\* The --match-dep value <dependency>:<target>.
RawPair(d, t) == <<d, ":", t>>

\* RunE up to the call of run: parseAndVerifyMatchDeps.
ParseFlags ==
    /\ pc = "parse"
    /\ \E order \in Orders(DOMAIN parseLoop(rawMatchDeps, 1, parsedMatchDeps).m) :
          LET r == parseAndVerifyMatchDeps(rawMatchDeps, parsedMatchDeps, order)
          IN /\ parsedMatchDeps' = r.m
             /\ runErr' = r.err
             /\ pc' = IF r.err = NoErr THEN "load" ELSE "failed"
             /\ pkgIdx' = IF r.err = NoErr THEN 1 ELSE pkgIdx
    /\ UNCHANGED <<projectDeps, depDeps, allLoadedDeps, pkgDepSet, impTodo,
                   depsToCheck, depErrs, readLog>>
    /\ UNCHANGED <<envVars, buildVars>>

\* The head of an iteration of the loop over pkgs: load the package's own
\* gomodfile.
LoadPackage ==
    /\ pc = "load"
    /\ pkgIdx <= Len(pkgs)
    /\ LET pkg == pkgs[pkgIdx]
           r == getOrLoadPackageDeps(allLoadedDeps, modFiles, pkg.module, NilRef)
       IN /\ readLog' = Logged(readLog, r, pkg.module, NilRef)
          /\ IF r.err # NoErr
             THEN /\ pc' = "failed"
                  /\ runErr' = r.err
                  /\ UNCHANGED <<projectDeps, allLoadedDeps, pkgDepSet,
                                 impTodo>>
             ELSE /\ pc' = "imports"
                  /\ allLoadedDeps' = r.loaded
                  /\ projectDeps' = IF r.fresh THEN Append(projectDeps, r.deps)
                                    ELSE projectDeps
                  /\ pkgDepSet' = r.deps
                  /\ impTodo' = pkg.imports
                  /\ UNCHANGED runErr
    /\ UNCHANGED <<parsedMatchDeps, depDeps, pkgIdx, depsToCheck, depErrs>>
    /\ UNCHANGED <<envVars, buildVars>>

\* importPkgPath of an import.
ImportPkgPath(importPkg) ==
    IF importPkg.module.present THEN importPkg.module.path ELSE ""

\* Variant: every import that has a module is loaded.
Wanted_Always(importPkgPath) == importPkgPath # ""

\* Is the import's module one of those to compare against?
Wanted(importPkgPath) ==
    \/ importPkgPath \in DOMAIN parsedMatchDeps
    \/ \E i \in 1..Len(checkReplacePackages) :
          checkReplacePackages[i] = importPkgPath

\* An import whose module is not named by a flag: continue.
SkipImport ==
    /\ pc = "imports"
    /\ \E importPkg \in impTodo :
          /\ ~Wanted(ImportPkgPath(importPkg))
          /\ impTodo' = impTodo \ {importPkg}
    /\ UNCHANGED <<parsedMatchDeps, projectDeps, depDeps, allLoadedDeps, pc,
                   pkgIdx, pkgDepSet, runErr, depsToCheck, depErrs, readLog>>
    /\ UNCHANGED <<envVars, buildVars>>

\* An import whose module is named by a flag: load its gomodfile, with the
\* current package's requirement of it as the parent declaration.
LoadImport ==
    /\ pc = "imports"
    /\ pkgDepSet # ""
    /\ \E importPkg \in impTodo :
          LET importPkgPath == ImportPkgPath(importPkg)
              importDep == GetDep(allLoadedDeps, pkgDepSet, importPkgPath)
              r == getOrLoadPackageDeps(allLoadedDeps, modFiles,
                                        importPkg.module, importDep)
          IN /\ Wanted(importPkgPath)
             /\ readLog' = Logged(readLog, r, importPkg.module, importDep)
             /\ IF r.err # NoErr
                THEN /\ pc' = "failed"
                     /\ runErr' = r.err
                     /\ UNCHANGED <<depDeps, allLoadedDeps, impTodo>>
                ELSE /\ allLoadedDeps' = r.loaded
                     /\ depDeps' = IF r.fresh
                                   THEN Overwrite(depDeps,
                                                  importPkgPath :> r.deps)
                                   ELSE depDeps
                     /\ impTodo' = impTodo \ {importPkg}
                     /\ UNCHANGED <<pc, runErr>>
    /\ UNCHANGED <<parsedMatchDeps, projectDeps, pkgIdx, pkgDepSet,
                   depsToCheck, depErrs>>
    /\ UNCHANGED <<envVars, buildVars>>

\* pkgDepSet.GetDep on the nil PackageDependencies of a package without a
\* gomodfile: a nil dereference, the program panics.
ImportPanic ==
    /\ pc = "imports"
    /\ pkgDepSet = ""
    /\ \E importPkg \in impTodo : Wanted(ImportPkgPath(importPkg))
    /\ pc' = "panic"
    /\ UNCHANGED <<parsedMatchDeps, projectDeps, depDeps, allLoadedDeps,
                   pkgIdx, pkgDepSet, impTodo, runErr, depsToCheck, depErrs,
                   readLog>>
    /\ UNCHANGED <<envVars, buildVars>>

\* The end of the loop over the imports of a package.
NextPackage ==
    /\ pc = "imports"
    /\ impTodo = {}
    /\ pc' = "load"
    /\ pkgIdx' = pkgIdx + 1
    /\ UNCHANGED <<parsedMatchDeps, projectDeps, depDeps, allLoadedDeps,
                   pkgDepSet, impTodo, runErr, depsToCheck, depErrs, readLog>>
    /\ UNCHANGED <<envVars, buildVars>>

\* readDepMappings has returned nil: findDepErrors and the rest of run.  The
\* range statements over parsedMatchDeps and depsToCheck visit the keys in
\* any order.
FindDepErrors ==
    /\ pc = "load"
    /\ pkgIdx > Len(pkgs)
    /\ \E o1 \in Orders(DOMAIN parsedMatchDeps) :
          LET cands == collectDepsToCheck(allLoadedDeps, parsedMatchDeps,
                                          depDeps, checkReplacePackages, o1)
          IN \E o3 \in Orders(DOMAIN cands) :
                LET res == compareLoop(allLoadedDeps, cands, projectDeps, o3, 1)
                IN /\ depsToCheck' = cands
                   /\ depErrs' = res
                   /\ runErr' = IF Len(res) > 0 THEN ErrMismatches ELSE NoErr
    /\ pc' = "done"
    /\ UNCHANGED <<parsedMatchDeps, projectDeps, depDeps, allLoadedDeps,
                   pkgIdx, pkgDepSet, impTodo, readLog>>
    /\ UNCHANGED <<envVars, buildVars>>

Next ==
    \/ ParseFlags
    \/ LoadPackage
    \/ SkipImport
    \/ LoadImport
    \/ ImportPanic
    \/ NextPackage
    \/ FindDepErrors

(***************************************************************************)
(* The runs checked: flags, gomodfiles and package graphs.                 *)
(***************************************************************************)
\* Third-party modules F and G, dependencies D and E, the project P (and a
\* second module Q of the project).
F(v) == Require("F", v, FALSE)
G(v) == Require("G", v, TRUE)

\* Require lists over F and G.
TargetRequires ==
    {<<>>, <<F("v1")>>, <<F("v2")>>, <<G("v1")>>, <<F("v1"), G("v1")>>,
     <<F("v2"), G("v1")>>}

\* The project's gomodfile requires its dependencies D and E.
ProjectFiles ==
    {ParsedFile("P", <<Require("D", "v1", FALSE), Require("E", "v1", FALSE)>>
                     \o reqs, reps) :
        reqs \in TargetRequires,
        reps \in {<<>>, <<Replace("F", "", "G", "v2")>>}}

DepFiles(name) ==
    {ParsedFile(name, reqs, reps) :
        reqs \in TargetRequires,
        reps \in {<<>>, <<Replace("F", "", "G", "v2")>>,
                  <<Replace("F", "", "G", "v1")>>,
                  <<Replace("F", "v1", "F", "v2")>>}}

\* Gomodfiles NewProjectDependenciesFromModfile rejects: F required twice,
\* and F replaced by two untargeted directives.
RejectedFiles(name) ==
    {ParsedFile(name, <<F("v1"), F("v2")>>, <<>>),
     ParsedFile(name, <<F("v1")>>,
                <<Replace("F", "", "G", "v2"), Replace("F", "", "G", "v1")>>)}

\* A gomodfile of D that requires the dependency E as well.
DRequiresE == ParsedFile("D", <<Require("E", "v1", FALSE), F("v1")>>, <<>>)

DefaultFile(name) == ParsedFile(name, <<F("v1")>>, <<>>)

OtherFiles(name) ==
    {DefaultFile(name),
     ParsedFile(name, <<F("v2"), G("v1")>>, <<Replace("F", "", "G", "v1")>>)}

ImportOf(path, module) == [importPath |-> path, module |-> module]
DPkg == ImportOf("D/d", Module("D", "d.mod", NoReplace))
EPkg == ImportOf("E/e", Module("E", "e.mod", NoReplace))
\* E replaced by a module whose gomodfile is d.mod.
EReplacedPkg ==
    ImportOf("E/e", Module("E", "e.mod", [present |-> TRUE, goMod |-> "d.mod"]))
\* A package of the standard library has no module.
StdPkg == ImportOf("fmt", NoModule)

Package(module, imports) == [module |-> module, imports |-> imports]
PModule == Module("P", "p.mod", NoReplace)
QModule == Module("Q", "q.mod", NoReplace)

\* D as a module of the project too (a workspace of P and D).
DModule == Module("D", "d.mod", NoReplace)

\* A module of the project for which no gomodfile path is known.
NoGoModModule == Module("P", "", NoReplace)

PackageGraphs ==
    {<<Package(PModule, {DPkg, StdPkg})>>,
     <<Package(PModule, {DPkg, EPkg})>>,
     <<Package(PModule, {DPkg}), Package(PModule, {DPkg, EPkg})>>,
     <<Package(PModule, {DPkg}), Package(QModule, {EPkg})>>,
     <<Package(PModule, {DPkg, EReplacedPkg})>>,
     <<Package(NoModule, {DPkg})>>}

\* The gomodfile paths a package graph can make the program read.
FilesOf(graph) ==
    UNION {{ModFilePath(graph[i].module)} \cup
           {ModFilePath(imp.module) : imp \in graph[i].imports} :
              i \in 1..Len(graph)} \ {""}

MatchDepFlags ==
    {<<>>,
     <<RawPair("D", "F")>>,
     <<RawPair("D", "G")>>,
     <<RawPair("D", "F"), RawPair("D", "G")>>,
     <<RawPair("D", "F"), RawPair("E", "G")>>,
     <<RawPair("D", "F"), RawPair("E", "F")>>,
     <<RawPair("D", "F"), <<"D">>>>}

MatchReplaceFlags == {<<>>, <<"D">>, <<"D", "E">>, <<"E", "D">>}

Init ==
    /\ rawMatchDeps \in MatchDepFlags
    /\ checkReplacePackages \in MatchReplaceFlags
    /\ pkgs \in PackageGraphs
    /\ \E p \in ProjectFiles, d \in DepFiles("D") \cup {Unreadable},
          e \in OtherFiles("E"), q \in OtherFiles("Q") :
          \* a gomodfile no package of the graph names is never read
          /\ "e.mod" \notin FilesOf(pkgs) => e = DefaultFile("E")
          /\ "q.mod" \notin FilesOf(pkgs) => q = DefaultFile("Q")
          /\ modFiles = [f \in {"p.mod", "q.mod", "d.mod", "e.mod"} |->
                            CASE f = "p.mod" -> p
                              [] f = "q.mod" -> q
                              [] f = "d.mod" -> d
                              [] f = "e.mod" -> e]
    /\ pc = "parse"
    /\ CmdIdle
    /\ BuildIdle

Spec == Init /\ [][Next]_vars

(***************************************************************************)
(* Runs for the loading of the gomodfiles: more package graphs and         *)
(* gomodfiles that cannot be loaded, fewer versions.                       *)
(***************************************************************************)
LoadGraphs ==
    PackageGraphs \cup
    {<<Package(PModule, {DPkg}), Package(DModule, {EPkg})>>,
     <<Package(DModule, {EPkg}), Package(PModule, {DPkg})>>,
     <<Package(NoGoModModule, {EPkg, StdPkg}), Package(PModule, {DPkg})>>}

LoadMatchDepFlags ==
    {<<>>,
     <<RawPair("D", "F")>>,
     <<RawPair("D", "F"), RawPair("E", "G")>>,
     <<RawPair("D", "F"), RawPair("E", "F")>>,
     <<RawPair("D", "F"), <<"D">>>>,
     <<RawPair("D", "F"), <<"D", ":">>>>,
     <<RawPair("D", "F"), RawPair("D", "G")>>}

LoadMatchReplaceFlags == {<<>>, <<"D", "E">>}

LoadProjectFiles ==
    {ParsedFile("P", <<Require("D", "v1", FALSE), Require("E", "v1", FALSE),
                       F("v1")>>, <<>>),
     ParsedFile("P", <<Require("D", "v1", FALSE), Require("E", "v1", FALSE),
                       F("v1"), G("v2")>>, <<>>),
     Unreadable}

LoadDepFiles ==
    {DefaultFile("D"), DRequiresE,
     ParsedFile("D", <<F("v2")>>, <<Replace("F", "", "G", "v2")>>),
     ParsedFile("D", <<F("v2"), G("v1")>>,
                <<Replace("F", "", "G", "v2"), Replace("G", "", "F", "v2")>>),
     Unreadable}
    \cup RejectedFiles("D")

InitLoad ==
    /\ rawMatchDeps \in LoadMatchDepFlags
    /\ checkReplacePackages \in LoadMatchReplaceFlags
    /\ pkgs \in LoadGraphs
    /\ \E p \in LoadProjectFiles, d \in LoadDepFiles,
          e \in OtherFiles("E") \cup {Unreadable}, q \in OtherFiles("Q") :
          \* a gomodfile no package of the graph names is never read
          /\ "e.mod" \notin FilesOf(pkgs) => e = DefaultFile("E")
          /\ "q.mod" \notin FilesOf(pkgs) => q = DefaultFile("Q")
          /\ modFiles = [f \in {"p.mod", "q.mod", "d.mod", "e.mod"} |->
                            CASE f = "p.mod" -> p
                              [] f = "q.mod" -> q
                              [] f = "d.mod" -> d
                              [] f = "e.mod" -> e]
    /\ pc = "parse"
    /\ CmdIdle
    /\ BuildIdle

SpecLoad == InitLoad /\ [][Next]_vars

(***************************************************************************)
(* Only the flags are parsed.                                              *)
(***************************************************************************)
FlagNames == {"D", "E", "F"}

RawInputs ==
    {RawPair(d, t) : d \in FlagNames, t \in FlagNames}
    \cup {<<>>, <<"D">>, <<":">>, <<"D", ":">>, <<":", "F">>,
          <<"D", ":", "F", ":", "E">>, <<"D", "E", ":", "F">>}

InitParse ==
    /\ rawMatchDeps \in SeqUpTo(RawInputs, MaxRaw)
    /\ checkReplacePackages = <<>>
    /\ modFiles = <<>>
    /\ pkgs = <<>>
    /\ pc = "parse"
    /\ CmdIdle
    /\ BuildIdle

NextParse == ParseFlags

SpecParse == InitParse /\ [][NextParse]_vars

(***************************************************************************)
(* Properties of the comparison (checked under Spec).                      *)
(***************************************************************************)
\* The gomodfile at path file requires the module path.
RequiredIn(file, path) ==
    \E i \in 1..Len(modFiles[file].require) :
        modFiles[file].require[i].mod.path = path

\* The gomodfile at path file requires the module path at version v.
RequiredAt(file, path, v) ==
    \E i \in 1..Len(modFiles[file].require) :
        modFiles[file].require[i].mod = ModuleVersion(path, v)

\* file is the gomodfile of a package of the project.
ProjectFile(file) ==
    \E i \in 1..Len(pkgs) :
        pkgs[i].module.present /\ ModFilePath(pkgs[i].module) = file

\* file is the gomodfile of the dependency depPackage, which a package of
\* the project imports.
DependencyFile(depPackage, file) ==
    \E i \in 1..Len(pkgs) : \E imp \in pkgs[i].imports :
        /\ imp.module.present
        /\ imp.module.path = depPackage
        /\ ModFilePath(imp.module) = file

\* The --match-replaces flag names depPackage.
MatchReplaces(depPackage) ==
    \E i \in 1..Len(checkReplacePackages) : checkReplacePackages[i] = depPackage

\* The number of reports for the candidate want against the project's got.
ReportCount(want, got) ==
    Cardinality({i \in 1..Len(depErrs) :
                    depErrs[i].wantLoc = want /\ depErrs[i].gotLoc = got})

\* C1 as stated: for every candidate and every project dependency set that
\* holds the candidate's original path, there is exactly one report if the
\* two effective versions differ in their version strings, and none if the
\* version strings are equal.
C1_ReportIffVersionsDiffer ==
    pc = "done" =>
        \A key \in DOMAIN depsToCheck : \A k \in 1..Len(projectDeps) :
            LET checkDep == Deref(allLoadedDeps, depsToCheck[key])
                path == checkDep.originalVersion.path
            IN HasDep(allLoadedDeps[projectDeps[k]], path) =>
                 LET got == DepRef(projectDeps[k], path)
                     projectDep == Deref(allLoadedDeps, got)
                 IN ReportCount(depsToCheck[key], got) =
                        IF checkDep.effectiveVersion.version #
                               projectDep.effectiveVersion.version
                        THEN 1 ELSE 0

\* C1 amended: there is exactly one report if the two effective module
\* versions differ as the strings path@version, and none if those strings
\* are equal; the report carries the two strings.
C1_ReportIffModuleVersionsDiffer ==
    pc = "done" =>
        \A key \in DOMAIN depsToCheck : \A k \in 1..Len(projectDeps) :
            LET checkDep == Deref(allLoadedDeps, depsToCheck[key])
                path == checkDep.originalVersion.path
            IN HasDep(allLoadedDeps[projectDeps[k]], path) =>
                 LET got == DepRef(projectDeps[k], path)
                     projectDep == Deref(allLoadedDeps, got)
                     want == checkDep.effectiveVersion
                     have == projectDep.effectiveVersion
                 IN /\ ReportCount(depsToCheck[key], got) =
                           IF want.path # have.path \/ want.version # have.version
                           THEN 1 ELSE 0
                    /\ \A i \in 1..Len(depErrs) :
                          (depErrs[i].wantLoc = depsToCheck[key]
                           /\ depErrs[i].gotLoc = got)
                          => /\ depErrs[i].wantVersion =
                                    want.path \o "@" \o want.version
                             /\ depErrs[i].gotVersion =
                                    have.path \o "@" \o have.version

\* A report for a candidate whose effective version string equals the
\* project's, the effective module paths being different.
C1_Witness ==
    /\ pc = "done"
    /\ \E i \in 1..Len(depErrs) :
          LET want == Deref(allLoadedDeps, depErrs[i].wantLoc).effectiveVersion
              have == Deref(allLoadedDeps, depErrs[i].gotLoc).effectiveVersion
          IN want.version = have.version /\ want.path # have.path

\* The run of C2 for the module M: one project gomodfile requiring M at v1,
\* the imported dependency D requiring M at v2, --match-dep D:M alone, and no
\* replace directive in either file.
MatchDepRun(M, v1, v2) ==
    /\ rawMatchDeps = <<RawPair("D", M)>>
    /\ checkReplacePackages = <<>>
    /\ \A i \in 1..Len(pkgs) : pkgs[i].module = PModule
    /\ DependencyFile("D", "d.mod")
    /\ modFiles["d.mod"].readable
    /\ RequiredAt("p.mod", M, v1)
    /\ RequiredAt("d.mod", M, v2)
    /\ modFiles["p.mod"].replace = <<>>
    /\ modFiles["d.mod"].replace = <<>>

\* C2: such a run ends with exactly one report when v1 # v2, for M, wanting
\* D's version and having got the project's, and with none when v1 = v2.
C2_MatchDepEndToEnd ==
    \A M \in {"F", "G"} : \A v1, v2 \in Versions :
        (pc = "done" /\ MatchDepRun(M, v1, v2)) =>
            IF v1 = v2 THEN depErrs = <<>>
            ELSE /\ Len(depErrs) = 1
                 /\ depErrs[1].wantLoc = DepRef("d.mod", M)
                 /\ depErrs[1].gotLoc = DepRef("p.mod", M)
                 /\ depErrs[1].wantVersion = M \o "@" \o v2
                 /\ depErrs[1].gotVersion = M \o "@" \o v1

C2_Witness ==
    /\ pc = "done"
    /\ MatchDepRun("F", "v1", "v2")
    /\ Len(depErrs) = 1

\* The run of C3: D's gomodfile requires F and replaces F => G v2
\* (untargeted), --match-replaces D alone.
MatchReplacesRun ==
    /\ rawMatchDeps = <<>>
    /\ checkReplacePackages = <<"D">>
    /\ \A i \in 1..Len(pkgs) : pkgs[i].module = PModule
    /\ DependencyFile("D", "d.mod")
    /\ modFiles["d.mod"].readable
    /\ RequiredIn("d.mod", "F")
    /\ Len(modFiles["d.mod"].replace) = 1
    /\ modFiles["d.mod"].replace[1].old = ModuleVersion("F", "")
    /\ modFiles["d.mod"].replace[1].new = ModuleVersion("G", "v2")

\* C3 as stated: when the project requires G v1, such a run ends with exactly
\* one report, for F, wanting v2 and having got v1 of G.
C3_MatchReplacesEndToEnd ==
    (pc = "done" /\ MatchReplacesRun /\ RequiredAt("p.mod", "G", "v1")) =>
        /\ Len(depErrs) = 1
        /\ depErrs[1].wantLoc = DepRef("d.mod", "F")
        /\ Deref(allLoadedDeps, depErrs[1].wantLoc).effectiveVersion.version = "v2"
        /\ Deref(allLoadedDeps, depErrs[1].gotLoc).effectiveVersion =
               ModuleVersion("G", "v1")

\* C3 amended: the report is against the project's requirement of F, the
\* original path.  When the project requires F at v and does not replace it,
\* the run ends with exactly one report, for F, wanting G@v2 and having got
\* F@v; when the project does not require F it ends with none, also when it
\* requires G.
C3_MatchReplacesOriginalPath ==
    (pc = "done" /\ MatchReplacesRun /\ modFiles["p.mod"].replace = <<>>) =>
        /\ \A v \in Versions :
              RequiredAt("p.mod", "F", v) =>
                  /\ Len(depErrs) = 1
                  /\ depErrs[1].wantLoc = DepRef("d.mod", "F")
                  /\ depErrs[1].gotLoc = DepRef("p.mod", "F")
                  /\ depErrs[1].wantVersion = "G@v2"
                  /\ depErrs[1].gotVersion = "F" \o "@" \o v
        /\ ~RequiredIn("p.mod", "F") => depErrs = <<>>

C3_Witness ==
    /\ pc = "done"
    /\ MatchReplacesRun
    /\ modFiles["p.mod"].replace = <<>>
    /\ RequiredAt("p.mod", "F", "v1")
    /\ RequiredAt("p.mod", "G", "v1")
    /\ Len(depErrs) = 1

\* C4: every report is for a module path that a gomodfile of the project
\* requires and that the gomodfile of a dependency named by a flag requires:
\* as a --match-dep target of that dependency, or as the old path of one of
\* its replace directives under --match-replaces.
C4_ReportOnlyForSharedModules ==
    \A i \in 1..Len(depErrs) :
        LET P == depErrs[i].wantLoc.path IN
        /\ depErrs[i].gotLoc.path = P
        /\ ProjectFile(depErrs[i].gotLoc.file)
        /\ RequiredIn(depErrs[i].gotLoc.file, P)
        /\ \E depPackage \in DOMAIN parsedMatchDeps \cup
                               {checkReplacePackages[j] :
                                    j \in 1..Len(checkReplacePackages)} :
              /\ DependencyFile(depPackage, depErrs[i].wantLoc.file)
              /\ RequiredIn(depErrs[i].wantLoc.file, P)
              /\ \/ /\ depPackage \in DOMAIN parsedMatchDeps
                    /\ P \in parsedMatchDeps[depPackage]
                 \/ /\ MatchReplaces(depPackage)
                    /\ \E j \in 1..Len(modFiles[depErrs[i].wantLoc.file].replace) :
                          modFiles[depErrs[i].wantLoc.file].replace[j].old.path = P

\* A run with a report, and with a candidate the project does not require
\* that has none.
C4_Witness ==
    /\ pc = "done"
    /\ Len(depErrs) > 0
    /\ \E key \in DOMAIN depsToCheck :
          \A k \in 1..Len(projectDeps) : ~RequiredIn(projectDeps[k], key)

\* C5: without flags the candidate map stays empty, no dependency's
\* gomodfile is registered in depDeps and there is no report.
C5_NoFlagsNoReports ==
    (rawMatchDeps = <<>> /\ checkReplacePackages = <<>>) =>
        /\ DOMAIN depsToCheck = {}
        /\ DOMAIN depDeps = {}
        /\ depErrs = <<>>
        /\ pc = "done" => runErr = NoErr

\* A run without flags that ended, on a project and a dependency that
\* disagree on F.
C5_Witness ==
    /\ pc = "done"
    /\ rawMatchDeps = <<>>
    /\ checkReplacePackages = <<>>
    /\ Len(projectDeps) > 0
    /\ DependencyFile("D", "d.mod")
    /\ modFiles["d.mod"].readable
    /\ RequiredAt("p.mod", "F", "v1")
    /\ RequiredAt("d.mod", "F", "v2")

(***************************************************************************)
(* Properties of the flag validation (checked under SpecParse).            *)
(***************************************************************************)
Colons(input) == {k \in 1..Len(input) : input[k] = ":"}

\* The input is <dependency>:<target>, both non-empty.
WellFormed(input) ==
    /\ Cardinality(Colons(input)) = 1
    /\ \A k \in Colons(input) : 1 < k /\ k < Len(input)

ColonOf(input) == CHOOSE k \in Colons(input) : TRUE
DependencyOf(input) == SubSeq(input, 1, ColonOf(input) - 1)
TargetOf(input) == SubSeq(input, ColonOf(input) + 1, Len(input))

\* Two inputs pair the same target with different dependencies.
SameTargetTwice ==
    \E i, j \in 1..Len(rawMatchDeps) :
        /\ WellFormed(rawMatchDeps[i])
        /\ WellFormed(rawMatchDeps[j])
        /\ TargetOf(rawMatchDeps[i]) = TargetOf(rawMatchDeps[j])
        /\ DependencyOf(rawMatchDeps[i]) # DependencyOf(rawMatchDeps[j])

\* Every input is well formed and names the same dependency.
OneDependency ==
    \A i, j \in 1..Len(rawMatchDeps) :
        /\ WellFormed(rawMatchDeps[i])
        /\ DependencyOf(rawMatchDeps[i]) = DependencyOf(rawMatchDeps[j])

\* C6: parseAndVerifyMatchDeps returns an error when two inputs pair one
\* target with different dependencies, returns nil when all inputs pair one
\* dependency with targets, and whenever it returns nil no target is in the
\* sets of two dependencies of parsedMatchDeps.
C6_MatchDepValidation ==
    pc # "parse" =>
        /\ SameTargetTwice => (pc = "failed" /\ runErr # NoErr)
        /\ OneDependency => (pc = "load" /\ runErr = NoErr)
        /\ pc = "load" =>
              \A p1, p2 \in DOMAIN parsedMatchDeps :
                  p1 # p2 => parsedMatchDeps[p1] \cap parsedMatchDeps[p2] = {}

\* The flags foo:bar, baz:bar were rejected for the target named twice.
C6_Witness ==
    /\ pc = "failed"
    /\ runErr = ErrMultiSource
    /\ SameTargetTwice

(***************************************************************************)
(* Properties of the replace-directive rules (checked under SpecBuild).    *)
(***************************************************************************)
Untargeted(rep) == rep.old.version = ""

\* The replace directive the next BuildReplace step applies, and the
\* dependency it is about.
AtReplace == bPc = "replace" /\ bIdx <= Len(bFile.replace)
CurRep == bFile.replace[bIdx]
CurDep == bRes.allDependencies[CurRep.old.path]

\* The directive at position j is targeted and pinned to the original version
\* of the module it names, which the file requires.
MatchingTargeted(j) ==
    LET rep == bFile.replace[j] IN
    /\ ~Untargeted(rep)
    /\ \E i \in 1..Len(bFile.require) :
          /\ bFile.require[i].mod.path = rep.old.path
          /\ bFile.require[i].mod.version = rep.old.version

\* The directive at position j is untargeted and names a required module.
UntargetedRequired(j) ==
    LET rep == bFile.replace[j] IN
    /\ Untargeted(rep)
    /\ \E i \in 1..Len(bFile.require) : bFile.require[i].mod.path = rep.old.path

\* The first require entry of the file for a module path.
RequiredVersion(path) ==
    LET i == CHOOSE i \in 1..Len(bFile.require) :
                 bFile.require[i].mod.path = path
    IN bFile.require[i].mod

\* C7: a targeted replace directive that matched the original version and
\* changed the effective module version has just been applied; applying an
\* untargeted directive for the same module next returns no error and leaves
\* the dependency (effective version, replace location, globalReplace = FALSE)
\* as the targeted directive set it.
C7_UntargetedAfterTargetedSkipped ==
    [][(/\ AtReplace
        /\ bIdx > 1
        /\ Untargeted(CurRep)
        /\ HasDep(bRes, CurRep.old.path)
        /\ ~Untargeted(bFile.replace[bIdx - 1])
        /\ bFile.replace[bIdx - 1].old.path = CurRep.old.path
        /\ bLog[bIdx - 1].assigned
        /\ CurDep.effectiveVersion # CurDep.originalVersion)
       => (/\ bPc' = "replace"
           /\ bRes' = bRes
           /\ ~bRes'.allDependencies[CurRep.old.path].globalReplace)]_vars

\* C8: a gomodfile with two untargeted replace directives for the same
\* required module never yields a dependency set, and the build fails with
\* the non-version-specific conflict.
TwoUntargeted ==
    \E j1, j2 \in 1..Len(bFile.replace) :
        /\ j1 < j2
        /\ UntargetedRequired(j1)
        /\ UntargetedRequired(j2)
        /\ bFile.replace[j1].old.path = bFile.replace[j2].old.path

C8_TwoUntargetedConflict ==
    (bFile.readable /\ TwoUntargeted) =>
        /\ bPc # "done"
        /\ bPc = "failed" => bErr \in {ErrMultiGlobal, ErrDuplicateDep}

\* C8 amended: when the first of the two changes the module's version string
\* and no targeted directive pinned to the module's original version precedes
\* the second, the build never gets past the second one: it fails there with
\* the non-version-specific conflict, or earlier.
TwoUntargetedInARow(j1, j2) ==
    /\ j1 < j2
    /\ UntargetedRequired(j1)
    /\ UntargetedRequired(j2)
    /\ bFile.replace[j1].old.path = bFile.replace[j2].old.path
    /\ bFile.replace[j1].new.version #
           RequiredVersion(bFile.replace[j1].old.path).version
    /\ \A k \in 1..(j2 - 1) :
          ~(/\ MatchingTargeted(k)
            /\ bFile.replace[k].old.path = bFile.replace[j1].old.path)

C8_TwoUntargetedInARowConflict ==
    \A j1, j2 \in 1..Len(bFile.replace) :
        (bFile.readable /\ TwoUntargetedInARow(j1, j2)) =>
            /\ bPc # "done"
            /\ bPc = "replace" => bIdx <= j2
            /\ (bPc = "failed" /\ bErr # ErrDuplicateDep /\ bIdx = j2)
                  => bErr = ErrMultiGlobal

\* The build failed at the second of two such directives.
C8_Witness ==
    /\ bPc = "failed"
    /\ bErr = ErrMultiGlobal
    /\ \E j1 \in 1..Len(bFile.replace) : TwoUntargetedInARow(j1, bIdx)

\* C9 as stated: a gomodfile with two targeted replace directives pinned to
\* the original version of the same required module never yields a dependency
\* set.
TwoTargeted(j1, j2) ==
    /\ j1 < j2
    /\ MatchingTargeted(j1)
    /\ MatchingTargeted(j2)
    /\ bFile.replace[j1].old = bFile.replace[j2].old

C9_TwoTargetedConflict ==
    (bFile.readable /\ \E j1, j2 \in 1..Len(bFile.replace) : TwoTargeted(j1, j2))
        => bPc # "done"

\* C9 amended: when the first of the two changes the module version
\* (its new module version is not the original one) and no untargeted
\* directive for that module stands between them, the build never gets past
\* the second one: it fails there with the version-specific conflict, or
\* earlier.
TwoTargetedInARow(j1, j2) ==
    /\ TwoTargeted(j1, j2)
    /\ bFile.replace[j1].new # RequiredVersion(bFile.replace[j1].old.path)
    /\ \A k \in (j1 + 1)..(j2 - 1) :
          ~(/\ Untargeted(bFile.replace[k])
            /\ bFile.replace[k].old.path = bFile.replace[j1].old.path)

C9_TwoTargetedInARowConflict ==
    \A j1, j2 \in 1..Len(bFile.replace) :
        (bFile.readable /\ TwoTargetedInARow(j1, j2)) =>
            /\ bPc # "done"
            /\ bPc = "replace" => bIdx <= j2
            /\ (bPc = "failed" /\ bErr # ErrDuplicateDep /\ bIdx = j2)
                  => bErr = ErrMultiTargeted

\* The build failed at the second of two such directives.
C9_Witness ==
    /\ bPc = "failed"
    /\ bErr = ErrMultiTargeted
    /\ \E j1 \in 1..Len(bFile.replace) : TwoTargetedInARow(j1, bIdx)

\* C10 as stated: in a dependency set built without error, at most one
\* replace directive has assigned the effective version of each dependency.
AssignCount(path) ==
    Cardinality({k \in 1..Len(bLog) : bLog[k].path = path /\ bLog[k].assigned})

Built == bPc \in {"replace", "done"}

\* The position of the last replace directive that assigned the effective
\* version of the dependency path, 0 when none has.
LastAssigned(path) ==
    LET S == {k \in 1..Len(bLog) : bLog[k].path = path /\ bLog[k].assigned}
    IN IF S = {} THEN 0 ELSE CHOOSE k \in S : \A m \in S : m <= k

\* C11 as stated: after the replace directives applied so far without error,
\* replacements holds a dependency if and only if its effective version
\* differs from its original version.
C11_ReplacementsIffChanged ==
    Built => \A path \in DOMAIN bRes.allDependencies :
                 path \in bRes.replacements <=>
                     bRes.allDependencies[path].effectiveVersion #
                         bRes.allDependencies[path].originalVersion

\* C11 amended: replacements holds a dependency if and only if a replace
\* directive has been applied to it (maybeUpdate returned true), and then its
\* effective version is the new module version of the last such directive; it
\* holds every dependency whose effective version differs from the original
\* one, and a dependency outside it has its original version.
C11_ReplacementsIffAssigned ==
    Built =>
        /\ bRes.replacements \subseteq DOMAIN bRes.allDependencies
        /\ \A path \in DOMAIN bRes.allDependencies :
              LET d == bRes.allDependencies[path] IN
              /\ path \in bRes.replacements <=> LastAssigned(path) # 0
              /\ d.effectiveVersion # d.originalVersion
                    => path \in bRes.replacements
              /\ path \in bRes.replacements
                    => d.effectiveVersion =
                           bFile.replace[LastAssigned(path)].new
              /\ path \notin bRes.replacements
                    => d.effectiveVersion = d.originalVersion

\* A set built without error that holds, in replacements, a dependency
\* replaced by its own original module version, next to one whose effective
\* version differs.
C11_Witness ==
    /\ bPc = "done"
    /\ \E p1, p2 \in bRes.replacements :
          /\ bRes.allDependencies[p1].effectiveVersion =
                 bRes.allDependencies[p1].originalVersion
          /\ bRes.allDependencies[p2].effectiveVersion #
                 bRes.allDependencies[p2].originalVersion

\* C12: a gomodfile without replace directives yields a set in which every
\* dependency has its original version as effective version, globalReplace
\* false and no replace location, and replacements is empty.
C12_NoReplaceNoChange ==
    (bPc = "done" /\ bFile.replace = <<>>) =>
        /\ bErr = NoErr
        /\ bRes.replacements = {}
        /\ \A path \in DOMAIN bRes.allDependencies :
              LET d == bRes.allDependencies[path] IN
              /\ d.effectiveVersion = d.originalVersion
              /\ ~d.globalReplace
              /\ d.location.replace = FileLocation(0, 0)
              /\ EffectiveLocation(d.location) = OriginalLocation(d.location)

\* A set of two dependencies built from a gomodfile without replace
\* directives.
C12_Witness ==
    /\ bPc = "done"
    /\ bFile.replace = <<>>
    /\ Cardinality(DOMAIN bRes.allDependencies) = 2

\* C13: applying a targeted replace directive pinned to another version than
\* the original version of the dependency it names returns no error and
\* leaves the whole set unchanged: the dependency's effective version,
\* effective location and globalReplace, and replacements.
C13_TargetedMismatchNoOp ==
    [][(/\ AtReplace
        /\ ~Untargeted(CurRep)
        /\ HasDep(bRes, CurRep.old.path)
        /\ CurDep.originalVersion.version # CurRep.old.version)
       => (/\ bPc' = "replace"
           /\ bIdx' = bIdx + 1
           /\ bErr' = NoErr
           /\ bRes' = bRes
           /\ EffectiveLocation(bRes'.allDependencies[CurRep.old.path].location)
                  = EffectiveLocation(CurDep.location))]_vars

\* Such a directive has just been applied to a dependency that a targeted
\* directive had replaced before.
C13_Witness ==
    /\ bPc = "replace"
    /\ bIdx > 1
    /\ Len(bLog) = bIdx - 1
    /\ LET rep == bFile.replace[bIdx - 1] IN
       /\ ~Untargeted(rep)
       /\ HasDep(bRes, rep.old.path)
       /\ bRes.allDependencies[rep.old.path].originalVersion.version #
              rep.old.version
       /\ bRes.allDependencies[rep.old.path].effectiveVersion #
              bRes.allDependencies[rep.old.path].originalVersion
       /\ ~bRes.allDependencies[rep.old.path].globalReplace

\* C14: globalReplace is true exactly for the dependencies whose effective
\* version was last assigned by an untargeted replace directive; it is false
\* for a dependency no directive assigned and for one a targeted directive
\* assigned last.
C14_GlobalReplaceIffUntargetedLast ==
    Built => \A path \in DOMAIN bRes.allDependencies :
                 LET k == LastAssigned(path) IN
                 bRes.allDependencies[path].globalReplace <=>
                     (k # 0 /\ Untargeted(bFile.replace[k]))

\* A set built without error with a dependency an untargeted directive
\* assigned last and one a targeted directive assigned over an untargeted one.
C14_Witness ==
    /\ bPc = "done"
    /\ \E p1, p2 \in DOMAIN bRes.allDependencies :
          /\ bRes.allDependencies[p1].globalReplace
          /\ AssignCount(p2) = 2
          /\ ~bRes.allDependencies[p2].globalReplace

\* The require list names a module path twice.
DuplicateRequire ==
    \E i, j \in 1..Len(bFile.require) :
        i # j /\ bFile.require[i].mod.path = bFile.require[j].mod.path

\* C18: a gomodfile that requires a module path twice makes the build fail in
\* the require loop with the duplicate dependency error and without a set; in
\* every set built, each required path has exactly one dependency, the one of
\* its only require entry.
C18_DuplicateRequireRejected ==
    /\ (bFile.readable /\ DuplicateRequire) =>
          /\ ~Built
          /\ bPc = "failed" => (/\ bErr = ErrDuplicateDep
                                /\ bRes = EmptyProjectDependencies)
    /\ Built =>
          /\ ~DuplicateRequire
          /\ Cardinality(DOMAIN bRes.allDependencies) = Len(bFile.require)
          /\ \A i \in 1..Len(bFile.require) :
                LET m == bFile.require[i].mod IN
                /\ HasDep(bRes, m.path)
                /\ bRes.allDependencies[m.path].originalVersion = m

\* The build failed at the second require entry for F, at another version
\* than the first.
C18_Witness ==
    /\ bPc = "failed"
    /\ bErr = ErrDuplicateDep
    /\ bIdx = 2
    /\ bFile.require[1].mod.path = bFile.require[2].mod.path
    /\ bFile.require[1].mod.version # bFile.require[2].mod.version

(***************************************************************************)
(* Properties of the loading of gomodfiles (checked under SpecLoad).       *)
(***************************************************************************)
\* The number of calls of NewProjectDependenciesFromModfile on a gomodfile.
ReadCount(f) == Cardinality({k \in 1..Len(readLog) : readLog[k].file = f})

\* The modules of the packages and of their imports.
GraphModules ==
    UNION {{pkgs[i].module} \cup {imp.module : imp \in pkgs[i].imports} :
              i \in 1..Len(pkgs)}

\* The references to the dependencies loaded so far, and nil.
LoadedRefs ==
    {NilRef} \cup
    UNION {{DepRef(f, p) : p \in DOMAIN allLoadedDeps[f].allDependencies} :
              f \in DOMAIN allLoadedDeps}

\* The import the step has just visited.
VisitedImport == CHOOSE imp \in impTodo : imp \notin impTodo'

\* A call of getOrLoadPackageDeps with a gomodfile path already in
\* allLoadedDeps, for any module of the graph and any caller declaration,
\* returns that entry, not fresh, without error and without reading.
CachedCallReturnsCached ==
    \A module \in GraphModules : \A dep \in LoadedRefs :
        (module.present /\ ModFilePath(module) \in DOMAIN allLoadedDeps) =>
            LET r == getOrLoadPackageDeps(allLoadedDeps, modFiles, module, dep)
            IN /\ r.deps = ModFilePath(module)
               /\ ~r.fresh
               /\ r.err = NoErr
               /\ r.loaded = allLoadedDeps
               /\ ~r.read

\* C15: a gomodfile is read at most once in a run; a call for a gomodfile
\* already loaded returns the cached set with freshLoad false; the step that
\* makes such a call, for a package or for an import, reads nothing and
\* registers nothing; and a set once in allLoadedDeps stays as it is,
\* ancestors included, whatever declaration later calls pass.
C15_LoadedOnceAndCached ==
    /\ [](/\ \A f \in DOMAIN modFiles : ReadCount(f) <= 1
          /\ CachedCallReturnsCached)
    /\ [][/\ \A f \in DOMAIN allLoadedDeps :
                /\ f \in DOMAIN allLoadedDeps'
                /\ allLoadedDeps'[f] = allLoadedDeps[f]
          /\ (/\ pc = "load" /\ pc' = "imports"
              /\ ModFilePath(pkgs[pkgIdx].module) \in DOMAIN allLoadedDeps)
                => /\ pkgDepSet' = ModFilePath(pkgs[pkgIdx].module)
                   /\ UNCHANGED <<allLoadedDeps, projectDeps, readLog>>
          /\ (/\ pc = "imports" /\ impTodo' # impTodo
              /\ ModFilePath(VisitedImport.module) \in DOMAIN allLoadedDeps)
                => UNCHANGED <<allLoadedDeps, depDeps, readLog>>]_vars

\* The imports of D and of E, which d.mod stands for too, have both been
\* visited: d.mod was loaded for one and found loaded for the other, whose
\* declaration in the project's gomodfile is another one.
C15_Witness ==
    /\ pc = "imports"
    /\ impTodo = {}
    /\ pkgs[pkgIdx].imports = {DPkg, EReplacedPkg}
    /\ Wanted("D")
    /\ Wanted("E")
    /\ ReadCount("d.mod") = 1
    /\ "d.mod" \in DOMAIN allLoadedDeps
    /\ DOMAIN allLoadedDeps["d.mod"].allDependencies # {}
    /\ GetDep(allLoadedDeps, "p.mod", "D") # GetDep(allLoadedDeps, "p.mod", "E")

ParseErrors == {ErrUnexpectedInput, ErrEmptyPath, ErrMultiSource}
LoadErrors == {ErrReadModFile, ErrDuplicateDep, ErrMultiGlobal, ErrMultiTargeted}

\* The --match-dep values do not pass parseAndVerifyMatchDeps.
FlagsInvalid ==
    \/ \E i \in 1..Len(rawMatchDeps) : ~WellFormed(rawMatchDeps[i])
    \/ SameTargetTwice

NothingLoaded ==
    /\ readLog = <<>>
    /\ DOMAIN allLoadedDeps = {}
    /\ projectDeps = <<>>
    /\ DOMAIN depDeps = {}

\* C16: nothing is read or registered before parseAndVerifyMatchDeps has
\* returned nil; flags that are malformed, have an empty path or name a
\* target under two dependencies end the run with a flag error and with
\* nothing read.
C16_FlagErrorsBeforeLoading ==
    /\ (pc = "parse" \/ FlagsInvalid) => NothingLoaded
    /\ (FlagsInvalid /\ pc # "parse") =>
          (pc = "failed" /\ runErr \in ParseErrors)
    /\ ~NothingLoaded => (~FlagsInvalid /\ runErr \notin ParseErrors)

\* A run that ended on an empty path in a --match-dep value, with gomodfiles
\* it could have loaded.
C16_Witness ==
    /\ pc = "failed"
    /\ runErr = ErrEmptyPath
    /\ NothingLoaded
    /\ Len(pkgs) > 0
    /\ modFiles["p.mod"].readable

\* The calls of NewProjectDependenciesFromModfile that returned an error.
FailedReads ==
    {k \in 1..Len(readLog) : readLog[k].file \notin DOMAIN allLoadedDeps}

RECURSIVE ChainLen(_, _)
ChainLen(loaded, ref) ==
    IF ref = NilRef THEN 0
    ELSE 1 + ChainLen(loaded, Deref(loaded, ref).location.ancestor)

\* file is a gomodfile some package of the project imports a package of.
ImportedFile(file) ==
    \E i \in 1..Len(pkgs) : \E imp \in pkgs[i].imports :
        imp.module.present /\ ModFilePath(imp.module) = file

LoadPos(f) == CHOOSE k \in 1..Len(readLog) : readLog[k].file = f

\* Does following Ancestor() from the node reach nil within n steps?
RECURSIVE ReachesNil(_, _, _)
ReachesNil(loaded, ref, n) ==
    IF ref = NilRef THEN TRUE
    ELSE IF n = 0 THEN FALSE
    ELSE ReachesNil(loaded, Deref(loaded, ref).location.ancestor, n - 1)

\* C20: the ancestor of every location node is nil or the node of a
\* dependency of a gomodfile loaded strictly earlier, so the walk of
\* ancestryToString from any dependency, and from the locations of any
\* report, reaches nil within as many steps as gomodfiles are loaded.
C20_AncestryAcyclic ==
    /\ \A f \in DOMAIN allLoadedDeps :
          /\ ReadCount(f) = 1
          /\ \A p \in DOMAIN allLoadedDeps[f].allDependencies :
                LET anc == allLoadedDeps[f].allDependencies[p].location.ancestor
                IN /\ \/ anc = NilRef
                      \/ /\ anc.file \in DOMAIN allLoadedDeps
                         /\ HasDep(allLoadedDeps[anc.file], anc.path)
                         /\ LoadPos(anc.file) < LoadPos(f)
                   /\ ReachesNil(allLoadedDeps, DepRef(f, p),
                                 Cardinality(DOMAIN allLoadedDeps))
    /\ \A i \in 1..Len(depErrs) :
          /\ ReachesNil(allLoadedDeps, depErrs[i].wantLoc,
                        Cardinality(DOMAIN allLoadedDeps))
          /\ ReachesNil(allLoadedDeps, depErrs[i].gotLoc,
                        Cardinality(DOMAIN allLoadedDeps))

\* A report whose want location has a chain through three gomodfiles.
C20_Witness ==
    /\ pc = "done"
    /\ \E i \in 1..Len(depErrs) :
          LET a1 == Deref(allLoadedDeps, depErrs[i].wantLoc).location.ancestor
          IN /\ a1 # NilRef
             /\ Deref(allLoadedDeps, a1).location.ancestor # NilRef

(***************************************************************************)
(* More properties of the replace-directive rules (under SpecBuild).       *)
(***************************************************************************)
\* C21: applying a replace directive, targeted or not, whose old path the
\* gomodfile does not require returns no error and leaves the whole set
\* unchanged: every dependency's effective version, replace location and
\* globalReplace, and replacements.
C21_UnrequiredReplaceIgnored ==
    [][(AtReplace /\ ~HasDep(bRes, CurRep.old.path))
       => (/\ bPc' = "replace"
           /\ bIdx' = bIdx + 1
           /\ bErr' = NoErr
           /\ bRes' = bRes
           /\ CurRep.old.path \notin bRes'.replacements)]_vars

\* Such a directive has just been applied to a set in which another
\* dependency is replaced.
C21_Witness ==
    /\ bPc = "replace"
    /\ bIdx > 1
    /\ Len(bLog) = bIdx - 1
    /\ ~HasDep(bRes, bFile.replace[bIdx - 1].old.path)
    /\ bRes.replacements # {}

\* The next directive is targeted and pinned to the original version of a
\* dependency of the set.
AtMatchingTargeted ==
    /\ AtReplace
    /\ ~Untargeted(CurRep)
    /\ HasDep(bRes, CurRep.old.path)
    /\ CurRep.old.version = CurDep.originalVersion.version

\* A matching targeted directive applied to a dependency whose effective
\* version an untargeted directive set succeeds: the effective version
\* becomes its new module version, the effective location its position,
\* globalReplace is cleared and the dependency stays in replacements.
TargetedOverUntargeted ==
    (AtMatchingTargeted /\ CurDep.globalReplace) =>
        /\ bPc' = "replace"
        /\ bErr' = NoErr
        /\ LET d == bRes'.allDependencies[CurRep.old.path] IN
           /\ d.effectiveVersion = CurRep.new
           /\ d.location.replace = FileLocation(CurRep.row, CurRep.col)
           /\ EffectiveLocation(d.location) =
                  FileLocation(CurRep.row, CurRep.col)
           /\ ~d.globalReplace
           /\ d.originalVersion = CurDep.originalVersion
        /\ CurRep.old.path \in bRes'.replacements

\* The two directives before the next one are an untargeted one and a
\* matching targeted one for the same dependency, both applied.
AfterUntargetedThenTargeted ==
    /\ AtMatchingTargeted
    /\ bIdx > 2
    /\ Untargeted(bFile.replace[bIdx - 2])
    /\ bFile.replace[bIdx - 2].old.path = CurRep.old.path
    /\ ~Untargeted(bFile.replace[bIdx - 1])
    /\ bFile.replace[bIdx - 1].old = CurRep.old
    /\ bLog[bIdx - 2].assigned
    /\ bLog[bIdx - 1].assigned

\* C23 as stated: the targeted directive over the untargeted one succeeds,
\* and a second matching targeted directive after the two is a conflict.
C23_TargetedOverUntargetedThenConflict ==
    [][/\ TargetedOverUntargeted
       /\ AfterUntargetedThenTargeted
             => (/\ bPc' = "failed"
                 /\ bErr' = ErrMultiTargeted)]_vars

\* C23 amended: the targeted directive over the untargeted one succeeds; a
\* second matching targeted directive after the two is a conflict when the
\* first targeted one changed the module version, and is applied without
\* error when the first one named the original module version as the new
\* one.
C23_TargetedOverUntargetedThenConflictIfChanged ==
    [][/\ TargetedOverUntargeted
       /\ AfterUntargetedThenTargeted
             => IF bFile.replace[bIdx - 1].new # CurDep.originalVersion
                THEN /\ bPc' = "failed"
                     /\ bErr' = ErrMultiTargeted
                     /\ bRes' = EmptyProjectDependencies
                ELSE /\ bPc' = "replace"
                     /\ bErr' = NoErr
                     /\ bRes'.allDependencies[CurRep.old.path].effectiveVersion
                            = CurRep.new]_vars

\* The build failed at the second of two matching targeted directives that
\* follow an untargeted one for the same dependency.
C23_Witness ==
    /\ bPc = "failed"
    /\ bErr = ErrMultiTargeted
    /\ bIdx = 3
    /\ Len(bLog) = 2
    /\ Untargeted(bFile.replace[1])
    /\ bFile.replace[1].old.path = bFile.replace[3].old.path
    /\ ~Untargeted(bFile.replace[2])
    /\ bFile.replace[2].old = bFile.replace[3].old
    /\ bLog[1].assigned
    /\ bLog[2].assigned

(***************************************************************************)
(* Packages without a gomodfile (under SpecLoad).                          *)
(***************************************************************************)
\* The package has no module, or its module has no gomodfile path.
NoManifest(module) == ~module.present \/ ModFilePath(module) = ""

\* C22: a package without module or gomodfile path is never an error:
\* getOrLoadPackageDeps returns nil, false, nil and leaves allLoadedDeps
\* alone, and readDepMappings goes on with the package's imports and the
\* remaining packages, also when the package imports a module named by a
\* flag.
C22_NoManifestNeverFails ==
    /\ \A i \in 1..Len(pkgs) :
          NoManifest(pkgs[i].module) =>
              getOrLoadPackageDeps(allLoadedDeps, modFiles, pkgs[i].module,
                                   NilRef)
                  = LoadResult("", FALSE, NoErr, allLoadedDeps, FALSE)
    /\ (pc = "imports" /\ NoManifest(pkgs[pkgIdx].module)) =>
          /\ pkgDepSet = ""
          /\ runErr = NoErr
    /\ pc # "panic"

(***************************************************************************)
(* The candidates of findDepErrors (under Spec).                           *)
(***************************************************************************)
\* The --match-dep packages that offer key as a candidate, and the
\* positions in --match-replaces of the packages that do.
MatchDepSources(key) ==
    {dp \in DOMAIN parsedMatchDeps \cap DOMAIN depDeps :
        /\ key \in parsedMatchDeps[dp]
        /\ HasDep(allLoadedDeps[depDeps[dp]], key)}

MatchReplaceSources(key) ==
    {j \in 1..Len(checkReplacePackages) :
        /\ checkReplacePackages[j] \in DOMAIN depDeps
        /\ key \in allLoadedDeps[depDeps[checkReplacePackages[j]]].replacements}

LastOf(S) == CHOOSE j \in S : \A k \in S : k <= j

\* C24: when several sources offer a candidate for the same module path,
\* the last one stays, without error: a --match-replaces package's replaced
\* dependency replaces a --match-dep candidate, the --match-replaces package
\* listed later replaces the one listed earlier, and only the one that
\* stays is compared, so one candidate per module path.
C24_LaterCandidateReplacesEarlier ==
    pc = "done" =>
        /\ \A key \in DOMAIN depsToCheck :
              IF MatchReplaceSources(key) # {}
              THEN depsToCheck[key] =
                       DepRef(depDeps[checkReplacePackages[
                                  LastOf(MatchReplaceSources(key))]], key)
              ELSE \E dp \in MatchDepSources(key) :
                       depsToCheck[key] = DepRef(depDeps[dp], key)
        /\ \A key \in {"F", "G"} :
              (MatchDepSources(key) # {} \/ MatchReplaceSources(key) # {})
                  => key \in DOMAIN depsToCheck
        /\ runErr \in {NoErr, ErrMismatches}
        /\ \A i \in 1..Len(depErrs) :
              /\ depErrs[i].wantLoc.path \in DOMAIN depsToCheck
              /\ depErrs[i].wantLoc = depsToCheck[depErrs[i].wantLoc.path]

\* F is a --match-dep candidate from one gomodfile and a replaced dependency
\* of two --match-replaces packages; the one listed last, from another
\* gomodfile than the first, was compared and reported.
C24_Witness ==
    /\ pc = "done"
    /\ MatchDepSources("F") # {}
    /\ \E j1, j2 \in MatchReplaceSources("F") :
          /\ j1 < j2
          /\ depDeps[checkReplacePackages[j1]] #
                 depDeps[checkReplacePackages[j2]]
          /\ depsToCheck["F"] = DepRef(depDeps[checkReplacePackages[j2]], "F")
          /\ \E dp \in MatchDepSources("F") :
                depDeps[dp] # depDeps[checkReplacePackages[j2]]
          /\ \E i \in 1..Len(depErrs) : depErrs[i].wantLoc = depsToCheck["F"]

(***************************************************************************)
(* depDeps after readDepMappings (under SpecLoad).                         *)
(***************************************************************************)
\* readDepMappings has returned nil.
MappingsRead == pc = "done" \/ (pc = "load" /\ pkgIdx > Len(pkgs))

\* The imports of the project's packages whose module a flag names and
\* whose gomodfile path is known.
NamedImports ==
    {imp \in UNION {pkgs[i].imports : i \in 1..Len(pkgs)} :
        /\ imp.module.present
        /\ Wanted(imp.module.path)
        /\ ModFilePath(imp.module) # ""}

\* C25: after readDepMappings has returned nil, depDeps maps the module
\* path of every such import to the dependency set of its gomodfile, also
\* when that gomodfile was in allLoadedDeps before the import was reached.
C25_NamedImportsInDepDeps ==
    MappingsRead =>
        \A imp \in NamedImports :
            /\ imp.module.path \in DOMAIN depDeps
            /\ depDeps[imp.module.path] = ModFilePath(imp.module)

(***************************************************************************)
(* findDepErrors and the order of map iteration (under SpecLoad).          *)
(***************************************************************************)
\* The reports of a result as a multiset of (module path, wantVersion,
\* gotVersion): how often each triple occurs.
ReportTriple(e) == <<e.wantLoc.path, e.wantVersion, e.gotVersion>>

ReportBag(res) ==
    [t \in {ReportTriple(res[i]) : i \in 1..Len(res)} |->
        Cardinality({i \in 1..Len(res) : ReportTriple(res[i]) = t})]

\* An order for each --match-dep package's set of targets, and for each
\* --match-replaces package's replacements.
TargetOrders ==
    {f \in [DOMAIN parsedMatchDeps ->
               UNION {Orders(parsedMatchDeps[dp]) : dp \in DOMAIN parsedMatchDeps}] :
        \A dp \in DOMAIN parsedMatchDeps : f[dp] \in Orders(parsedMatchDeps[dp])}

ReplacedOf(j) ==
    IF checkReplacePackages[j] \in DOMAIN depDeps
    THEN allLoadedDeps[depDeps[checkReplacePackages[j]]].replacements
    ELSE {}

ReplacementOrders ==
    {f \in [1..Len(checkReplacePackages) ->
               UNION {Orders(ReplacedOf(j)) : j \in 1..Len(checkReplacePackages)}] :
        \A j \in 1..Len(checkReplacePackages) : f[j] \in Orders(ReplacedOf(j))}

\* The candidates findDepErrors can end up with, over every order of the
\* first three ranges.
AllDepsToCheck ==
    {collectDepsToCheckIn(allLoadedDeps, depDeps, checkReplacePackages,
                          o1, tOrd, rOrd) :
        o1 \in Orders(DOMAIN parsedMatchDeps),
        tOrd \in TargetOrders, rOrd \in ReplacementOrders}

\* The results findDepErrors can return, over every order of the four
\* ranges.
AllResults ==
    UNION {{compareLoop(allLoadedDeps, cands, projectDeps, o3, 1) :
               o3 \in Orders(DOMAIN cands)} : cands \in AllDepsToCheck}

\* C26: once readDepMappings has returned, whatever the order in which
\* parsedMatchDeps, a set of targets, replacements and depsToCheck are
\* visited, findDepErrors returns the same multiset of (module path,
\* wantVersion, gotVersion); the result returned is one of them.
C26_ReportsIndependentOfOrder ==
    MappingsRead =>
        /\ Cardinality({ReportBag(res) : res \in AllResults}) = 1
        /\ Cardinality(AllDepsToCheck) = 1
        /\ pc = "done" =>
              /\ depsToCheck \in AllDepsToCheck
              /\ depErrs \in AllResults

\* Two modules were reported, and another order of the candidates gives the
\* reports in another order; a package has two targets and a package two
\* replaced dependencies.
C26_Witness ==
    /\ pc = "done"
    /\ Len(depErrs) = 2
    /\ depErrs[1].wantLoc.path # depErrs[2].wantLoc.path
    /\ \E res \in AllResults : res # depErrs
    /\ \E dp \in DOMAIN parsedMatchDeps : Cardinality(parsedMatchDeps[dp]) = 2
    /\ \E j \in 1..Len(checkReplacePackages) : Cardinality(ReplacedOf(j)) = 2

====
